---- MODULE Spec2Model ----
(***************************************************************************)
(* Model of the job-application core of costbyte-ai:                       *)
(*   - AutoApplier.apply_for_jobs  (src/ai_services/auto_applier/main.py)  *)
(*   - JobScraper.scrape_for_user  (src/ai_services/job_scraper/main.py)   *)
(* Spec          : a call of apply_for_jobs on one AutoApplier instance.   *)
(* SpecScrape    : overlapping scrape_for_user calls on one JobScraper.    *)
(* SpecFunctions : remove_duplicates, match_jobs_to_user and ai_match_jobs *)
(*                 called on a list of postings.                           *)
(* SpecSessions  : apply_for_jobs calls of one user running side by side.  *)
(* SpecDetect    : detect_form_type called on a page.                      *)
(* SpecLog       : log_application calls of several workers on one         *)
(*                 database.                                               *)
(* SpecFill      : apply_for_job on the page of a job: detection, dispatch *)
(*                 and the two form fillers.                               *)
(***************************************************************************)
EXTENDS Integers, Sequences, FiniteSets, TLC

\* ---------------------------------------------------------------- bounds
MaxJobs == 3          \* longest job list handed to apply_for_jobs
MaxDaily == 3         \* largest max_daily argument tried
MaxPrior == 1         \* rows already in the JobApplication table at the start
MaxDbErrors == 1      \* log_application calls of one run that hit a database error

MaxFeed == 1          \* longest posting list the careers24 adapter returns
MaxTime == 2          \* last tick the clock reaches
NumCalls == 2         \* scrape_for_user calls made on the JobScraper

MaxRaw == 3           \* longest list handed to remove_duplicates and the matchers

MaxUrl == 2           \* most fragments in the URL of a page

NumRuns == 2          \* apply_for_jobs calls made for the one user
MaxBatch == 2         \* most candidates one of these calls has to apply for

NumWorkers == 2       \* processes that call log_application for the user
MaxLogs == 2          \* log_application calls one of them makes

MaxFields == 2        \* most fields in the form of a page

Users == {"u1", "u2"}
RunUser == "u1"       \* the user apply_for_jobs is called for; the table also
                      \* holds rows of the other users

\* match_score values a job can carry; NoScore is a job without the key
NoScore == -1
ScoreValues == {60, 90, 95}
DelayValues == {5, 15}

VARIABLES
    \* ---- AutoApplier instance and its collaborators
    driver,                 \* self.driver: "none" or "open"
    user_data,              \* self.user_data: "empty" or "loaded"
    JobApplication,         \* rows of the JobApplication table, in insertion order
    total_applications,     \* User.total_applications
    user_successful,        \* User.successful_applications
    \* ---- locals of the apply_for_jobs call in progress
    pc,                     \* position of the call
    jobs,                   \* the jobs argument (sorted in place)
    max_daily,              \* the max_daily argument
    applications_today,     \* applications_today (line 74)
    remaining_applications, \* remaining_applications (line 75)
    jobs_to_apply,          \* jobs_to_apply (line 81)
    successful_applications,\* successful_applications (line 82)
    idx,                    \* position of the for loop in jobs_to_apply
    \* ---- observations of the call in progress
    attempted,              \* jobs handed to apply_for_job, in order
    notified,               \* notify_user calls issued: <<job id, success, outcome>>
    slept,                  \* ids of the jobs followed by the politeness delay
    last_delay,             \* argument of the asyncio.sleep just awaited, else 0
    user_id,                \* the user_id argument
    db_mark,                \* Len(JobApplication) when the call started
    created,                \* TRUE iff initialize() of this call created a driver
    db_errors,              \* log_application calls of this call that failed
    init_error              \* TRUE iff initialize() of this call raised

VARIABLES
    \* ---- JobScraper instance and its environment
    now,                    \* datetime.now(), in ticks of half an hour
    job_cache,              \* self.job_cache: cache key -> entry
    feeds,                  \* what the i-th source adapter does when scraped
    invocations,            \* scraper name -> number of scrape() calls made
    \* ---- the scrape_for_user calls
    cpc,                    \* call -> "idle", "awaiting" (on gather) or "done"
    cuser,                  \* call -> user_id argument
    cprefs,                 \* call -> preferences argument
    ckey,                   \* call -> cache_key (line 45)
    cstart,                 \* call -> clock when the call started
    cseen,                  \* call -> position of every call when it started
    chit,                   \* call -> TRUE iff it returned the cached list
    cage,                   \* call -> age of the cache entry it returned
    all_jobs,               \* call -> all_jobs before remove_duplicates
    cret                    \* call -> the list returned

svars == <<now, job_cache, feeds, invocations, cpc, cuser, cprefs, ckey, cstart,
           cseen, chit, cage, all_jobs, cret>>

avars == <<driver, user_data, JobApplication, total_applications, user_successful,
           pc, jobs, max_daily, applications_today, remaining_applications,
           jobs_to_apply, successful_applications, idx, attempted, notified,
           slept, last_delay, user_id, db_mark, created, db_errors, init_error>>

VARIABLES
    \* ---- remove_duplicates, match_jobs_to_user and ai_match_jobs called on a list
    raw_jobs,               \* the jobs argument
    fpc,                    \* which calls have been made on it
    unique_jobs,            \* remove_duplicates(raw_jobs)
    unique_again,           \* remove_duplicates(unique_jobs)
    fprefs,                 \* the preferences argument of match_jobs_to_user
    fmatched,               \* match_jobs_to_user(raw_jobs, fprefs)
    ai_outcome,             \* ai_match_jobs: "returned" or "raised"
    ai_matched              \* the list ai_match_jobs returned

fvars == <<raw_jobs, fpc, unique_jobs, unique_again, fprefs, fmatched,
           ai_outcome, ai_matched>>

VARIABLES
    \* ---- apply_for_jobs calls for one user running side by side
    inst_driver,            \* AutoApplier instance -> self.driver (NoDriver: None)
    sessions,               \* the Chrome sessions that are open
    rpc,                    \* call -> "idle", "page_load", "delay" or "returned"
    rinst,                  \* call -> the instance it was made on
    rleft,                  \* call -> candidates of jobs_to_apply not yet finished
    rlost,                  \* call -> candidates that found self.driver None
    daily_limit,            \* the max_daily the calls for the user are made with
    rows_applied,           \* the user's rows of today with status 'applied'
    rows_failed             \* the user's rows of today with status 'failed'

cvars == <<inst_driver, sessions, rpc, rinst, rleft, rlost, daily_limit,
           rows_applied, rows_failed>>

VARIABLES
    \* ---- detect_form_type called on a page
    current_url,            \* self.driver.current_url, as a sequence of fragments
    easy_apply_button,      \* TRUE iff the page has a button labelled 'Easy Apply'
    indeed_apply_button,    \* TRUE iff the page has the element indeed-apply-button
    session_alive,          \* FALSE iff the browser session is gone
    dpc,                    \* "page", or how the call ended: "returned", "raised"
    form_type,              \* the tag returned
    driver_calls            \* the calls made on self.driver, in order

dvars == <<current_url, easy_apply_button, indeed_apply_button, session_alive,
           dpc, form_type, driver_calls>>

VARIABLES
    \* ---- log_application calls of several workers, statement by statement
    lpc,                    \* worker -> "idle", "created" (row written) or "loaded"
    luser,                  \* worker -> the User object it loaded (line 628)
    lsuccess,               \* worker -> the success argument of its call
    lcalls                  \* worker -> calls it has made

lvars == <<lpc, luser, lsuccess, lcalls>>

VARIABLES
    \* ---- apply_for_job on the page of one job
    has_apply_url,          \* TRUE iff the job carries an apply_url
    page,                   \* the page the driver gets at that URL
    fault,                  \* where the driver raises: "none", "page_load",
                            \* "fill" (a lookup after the fields) or "click"
    user_fields,            \* self.user_data as load_user_data left it
    jpc,                    \* "ready" or "returned"
    detected,               \* the tag detect_form_type returned, else "none"
    filler,                 \* the filler method that ran, else "none"
    typed,                  \* values written into fields, in order
    clicks,                 \* controls clicked, in order
    applied                 \* what apply_for_job returned

pvars == <<has_apply_url, page, fault, user_fields, jpc, detected, filler, typed,
           clicks, applied>>

yvars == <<lvars, pvars>>

xvars == <<fvars, cvars, dvars, yvars>>

vars == <<avars, svars, xvars>>

\* ------------------------------------------------------------- helpers
Min(a, b) == IF a < b THEN a ELSE b
Max(a, b) == IF a > b THEN a ELSE b

\* x.get('match_score', 0)
ScoreKey(job) == IF job.match_score = NoScore THEN 0 ELSE job.match_score

\* a descending sort that is not stable: a job goes before its equals
RECURSIVE InsertDescUnstable(_, _)
InsertDescUnstable(job, s) ==
    IF s = <<>> THEN <<job>>
    ELSE IF ScoreKey(Head(s)) > ScoreKey(job)
         THEN <<Head(s)>> \o InsertDescUnstable(job, Tail(s))
         ELSE <<job>> \o s

\* list.sort(key=..., reverse=True): stable, descending by key
RECURSIVE InsertDesc(_, _)
InsertDesc(job, s) ==
    IF s = <<>> THEN <<job>>
    ELSE IF ScoreKey(Head(s)) >= ScoreKey(job)
         THEN <<Head(s)>> \o InsertDesc(job, Tail(s))
         ELSE <<job>> \o s

RECURSIVE SortByMatchScore(_)
SortByMatchScore(s) ==
    IF s = <<>> THEN <<>>
    ELSE InsertDesc(s[Len(s)], SortByMatchScore(SubSeq(s, 1, Len(s) - 1)))

\* the quota with today's applications left out
RemainingIgnoringToday(m, a) == Max(0, m)

\* remaining_applications = max(0, max_daily - applications_today)
RemainingApplications(m, a) == Max(0, m - a)

\* the limit test leaving a quota of zero through
QuotaBelowZero(r) == r < 0

\* line 77: remaining_applications <= 0
QuotaReached(r) == r <= 0

\* the whole list, unsliced
JobsToApplyAll(js, r) == js

\* jobs[:remaining_applications]
JobsToApply(js, r) == SubSeq(js, 1, Min(Len(js), r))

\* get_todays_applications: rows of the user dated today, 0 when the query fails
GetTodaysApplications(rows, u, dbok) ==
    IF dbok
    THEN Cardinality({i \in DOMAIN rows : rows[i].user_id = u /\ rows[i].day = "today"})
    ELSE 0

\* the job lists apply_for_jobs is called with: job i is the i-th of the input
JobLists ==
    UNION {[1..n -> {NoScore} \cup ScoreValues] : n \in 0..MaxJobs}
MkJobs(f) == [i \in DOMAIN f |-> [id |-> i, match_score |-> f[i]]]

\* ------------------------------------------------------ AutoApplier
\* log_application: one row, then the user's counters. A database error is
\* caught (line 634): one met by the create leaves nothing behind, one met by
\* the statements on the user leaves the row without the counters
DbOutcomes == {"ok", "create_fails", "user_fails"}

LogRows(rows, u, job, success, err, dbok) ==
    IF dbok
    THEN Append(rows, [user_id |-> u, job |-> job.id,
                       status |-> IF success THEN "applied" ELSE "failed",
                       error |-> err, day |-> "today"])
    ELSE rows

\* rows earlier runs left in the table: other users' rows, rows of an earlier
\* day, and today's rows of either status (job 0 is a job of an earlier run)
PriorRow(u, st, d) == [user_id |-> u, job |-> 0, status |-> st, error |-> FALSE, day |-> d]
PriorRows ==
    {PriorRow(u, st, "today") : u \in Users, st \in {"applied", "failed"}}
        \cup {PriorRow("u1", "applied", "yesterday")}
RECURSIVE PriorTables(_)
PriorTables(n) ==
    IF n = 0 THEN {<<>>}
    ELSE PriorTables(n - 1)
            \cup {Append(t, r) : t \in {x \in PriorTables(n - 1) : Len(x) = n - 1},
                                 r \in PriorRows}

LogApplication(u, job, success, err, db) ==
    /\ db = "ok" \/ db_errors < MaxDbErrors
    /\ db_errors' = IF db = "ok" THEN db_errors ELSE db_errors + 1
    /\ JobApplication' =
          LogRows(JobApplication, u, job, success, err, db # "create_fails")
    /\ total_applications' =
          IF db = "ok" THEN [total_applications EXCEPT ![u] = @ + 1]
          ELSE total_applications
    /\ user_successful' =
          IF db = "ok" /\ success THEN [user_successful EXCEPT ![u] = @ + 1]
          ELSE user_successful

CurrentJob == jobs_to_apply[idx]

\* what apply_for_jobs hands back (line 79, 115): the list of the jobs applied
\* for and nothing else, so the one count its caller can take from it
BatchResult == [succeeded |-> Len(successful_applications)]

AInit ==
    /\ driver = "none"
    /\ user_data = "empty"
    /\ JobApplication \in PriorTables(MaxPrior)
    /\ total_applications =
          [u \in Users |-> Cardinality({i \in DOMAIN JobApplication :
                                          JobApplication[i].user_id = u})]
    /\ user_successful =
          [u \in Users |-> Cardinality({i \in DOMAIN JobApplication :
                                          /\ JobApplication[i].user_id = u
                                          /\ JobApplication[i].status = "applied"})]
    /\ pc = "idle"
    /\ jobs = <<>>
    /\ max_daily = 0
    /\ applications_today = 0
    /\ remaining_applications = 0
    /\ jobs_to_apply = <<>>
    /\ successful_applications = <<>>
    /\ idx = 0
    /\ attempted = <<>>
    /\ notified = <<>>
    /\ slept = {}
    /\ last_delay = 0
    /\ user_id = "u1"
    /\ db_mark = 0
    /\ created = FALSE
    /\ db_errors = 0
    /\ init_error = FALSE

\* lines 63-84: initialize, load_user_data, sort, quota, slice
ApplyForJobs(u, f, m, init, dataok, dbok) ==
    /\ UNCHANGED <<svars, xvars>>
    /\ pc = "idle"
    /\ user_id' = u
    /\ max_daily' = m
    /\ db_mark' = Len(JobApplication)
    /\ attempted' = <<>>
    /\ notified' = <<>>
    /\ slept' = {}
    /\ last_delay' = 0
    /\ successful_applications' = <<>>
    /\ idx' = 1
    /\ db_errors' = 0
    /\ created' = (driver = "none" /\ init # "chrome_fails")
    /\ init_error' = (driver = "none" /\ init # "ok")
    /\ driver' = IF driver = "none" /\ init = "chrome_fails" THEN "none" ELSE "open"
    /\ IF driver = "none" /\ init # "ok"
       THEN \* initialize() raised: nothing else of the call runs
            /\ pc' = "raised"
            /\ jobs' = MkJobs(f)
            /\ UNCHANGED <<user_data, applications_today, remaining_applications,
                           jobs_to_apply>>
       ELSE /\ user_data' = IF dataok THEN "loaded" ELSE "empty"
            /\ jobs' = SortByMatchScore(MkJobs(f))
            /\ applications_today' = GetTodaysApplications(JobApplication, u, dbok)
            /\ remaining_applications' = RemainingApplications(m, applications_today')
            /\ IF QuotaReached(remaining_applications')
               THEN /\ pc' = "returned"
                    /\ jobs_to_apply' = <<>>
               ELSE /\ jobs_to_apply' = JobsToApply(jobs', remaining_applications')
                    /\ pc' = IF jobs_to_apply' = <<>> THEN "close" ELSE "apply"
    /\ UNCHANGED <<JobApplication, total_applications, user_successful>>

\* line 88-91, 103: apply_for_job returns True or False (its own try/except
\* turns every error of the page into False)
ApplyForJob(success) ==
    /\ UNCHANGED <<svars, xvars>>
    /\ pc = "apply"
    /\ attempted' = Append(attempted, CurrentJob)
    /\ successful_applications' =
          IF success THEN Append(successful_applications, CurrentJob)
          ELSE successful_applications
    /\ pc' = IF success THEN "log_success" ELSE "log_failed"
    /\ UNCHANGED <<driver, user_data, JobApplication, total_applications,
                   user_successful, jobs, max_daily, applications_today,
                   remaining_applications, jobs_to_apply, idx, notified, slept,
                   last_delay, user_id, db_mark, created, db_errors,
                   init_error>>

\* line 94
LogSuccess(db) ==
    /\ UNCHANGED <<svars, xvars>>
    /\ pc = "log_success"
    /\ LogApplication(user_id, CurrentJob, TRUE, FALSE, db)
    /\ pc' = "notify"
    /\ UNCHANGED <<driver, user_data, jobs, max_daily, applications_today,
                   remaining_applications, jobs_to_apply, successful_applications,
                   idx, attempted, notified, slept, last_delay, user_id, db_mark,
                   created, init_error>>

\* line 97: notify_user sends the message or raises
NotifyUser(sent) ==
    /\ UNCHANGED <<svars, xvars>>
    /\ pc = "notify"
    /\ notified' = Append(notified, <<CurrentJob.id, TRUE, sent>>)
    /\ pc' = IF sent THEN "sleep" ELSE "except"
    /\ UNCHANGED <<driver, user_data, JobApplication, total_applications,
                   user_successful, jobs, max_daily, applications_today,
                   remaining_applications, jobs_to_apply, successful_applications,
                   idx, attempted, slept, last_delay, user_id, db_mark, created, db_errors,
                   init_error>>

\* line 100
Sleep(d) ==
    /\ UNCHANGED <<svars, xvars>>
    /\ pc = "sleep"
    /\ slept' = slept \cup {CurrentJob.id}
    /\ last_delay' = d
    /\ pc' = "check"
    /\ UNCHANGED <<driver, user_data, JobApplication, total_applications,
                   user_successful, jobs, max_daily, applications_today,
                   remaining_applications, jobs_to_apply, successful_applications,
                   idx, attempted, notified, user_id, db_mark, created, db_errors,
                   init_error>>

\* line 102-104
LogFailed(db) ==
    /\ UNCHANGED <<svars, xvars>>
    /\ pc = "log_failed"
    /\ LogApplication(user_id, CurrentJob, FALSE, FALSE, db)
    /\ pc' = "check"
    /\ UNCHANGED <<driver, user_data, jobs, max_daily, applications_today,
                   remaining_applications, jobs_to_apply, successful_applications,
                   idx, attempted, notified, slept, last_delay, user_id, db_mark,
                   created, init_error>>

\* an except branch whose log_application lets a database error out
LogErrorPropagates(db) ==
    /\ UNCHANGED <<svars, xvars>>
    /\ pc = "except"
    /\ LogApplication(user_id, CurrentJob, FALSE, TRUE, db)
    /\ pc' = IF db = "ok" THEN "check" ELSE "raised"
    /\ UNCHANGED <<driver, user_data, jobs, max_daily, applications_today,
                   remaining_applications, jobs_to_apply, successful_applications,
                   idx, attempted, notified, slept, last_delay, user_id, db_mark,
                   created, init_error>>

\* line 106-108: the except branch
LogError(db) ==
    /\ UNCHANGED <<svars, xvars>>
    /\ pc = "except"
    /\ LogApplication(user_id, CurrentJob, FALSE, TRUE, db)
    /\ pc' = "check"
    /\ UNCHANGED <<driver, user_data, jobs, max_daily, applications_today,
                   remaining_applications, jobs_to_apply, successful_applications,
                   idx, attempted, notified, slept, last_delay, user_id, db_mark,
                   created, init_error>>

\* a loop that gives up at the first candidate that did not succeed
CheckLimitStopsOnFailure ==
    /\ UNCHANGED <<svars, xvars>>
    /\ pc = "check"
    /\ IF \/ Len(successful_applications) >= remaining_applications
          \/ CurrentJob \notin {successful_applications[k] :
                                   k \in DOMAIN successful_applications}
       THEN pc' = "close" /\ idx' = idx
       ELSE IF idx < Len(jobs_to_apply)
            THEN pc' = "apply" /\ idx' = idx + 1
            ELSE pc' = "close" /\ idx' = idx
    /\ last_delay' = 0
    /\ UNCHANGED <<driver, user_data, JobApplication, total_applications,
                   user_successful, jobs, max_daily, applications_today,
                   remaining_applications, jobs_to_apply, successful_applications,
                   attempted, notified, slept, user_id, db_mark,
                   created, db_errors, init_error>>

\* line 110-112 and the loop's advance
CheckLimit ==
    /\ UNCHANGED <<svars, xvars>>
    /\ pc = "check"
    /\ IF Len(successful_applications) >= remaining_applications
       THEN pc' = "close" /\ idx' = idx
       ELSE IF idx < Len(jobs_to_apply)
            THEN pc' = "apply" /\ idx' = idx + 1
            ELSE pc' = "close" /\ idx' = idx
    /\ last_delay' = 0
    /\ UNCHANGED <<driver, user_data, JobApplication, total_applications,
                   user_successful, jobs, max_daily, applications_today,
                   remaining_applications, jobs_to_apply, successful_applications,
                   attempted, notified, slept, user_id, db_mark,
                   created, db_errors,
                   init_error>>

\* line 114-115 with close() of lines 57-61
Close ==
    /\ UNCHANGED <<svars, xvars>>
    /\ pc = "close"
    /\ driver' = "none"
    /\ pc' = "returned"
    /\ UNCHANGED <<user_data, JobApplication, total_applications,
                   user_successful, jobs, max_daily, applications_today,
                   remaining_applications, jobs_to_apply, successful_applications,
                   idx, attempted, notified, slept, last_delay, user_id, db_mark,
                   created, db_errors,
                   init_error>>

\* ------------------------------------------------------ JobScraper
\* self.scrapers, in registration order (line 25-31)
ScraperNames == <<"careers24", "pnet", "indeed", "linkedin", "careerjunction">>
Scrapers == {ScraperNames[i] : i \in DOMAIN ScraperNames}
Calls == 1..NumCalls

\* the clock counts half hours: an hour is two ticks
HourTicks == 2
\* self.cache_expiry = timedelta(hours=1)
cache_expiry == HourTicks
\* datetime.now().strftime('%Y%m%d%H'): the hour the instant lies in
HourOf(t) == t \div HourTicks
\* f"user_{user_id}_{hour}": the hour has a fixed width, so the key names the
\* pair (user_id, hour) and nothing else
CacheKey(u, t) == <<u, HourOf(t)>>

\* a field a posting does not have (job.get(...) is None)
None == "<missing>"
\* how an f-string renders a field
Str(v) == IF v = None THEN "None" ELSE v

\* a posting: the four fields the identifier is built from, its location (the
\* rest of its content) and fit, what its text is worth to the matcher
Posting(src, jid, title, company, loc, fit) ==
    [source |-> src, job_id |-> jid, title |-> title, company |-> company,
     location |-> loc, fit |-> fit]

\* the postings each source can carry; careers24 postings have no job_id
\* (extract_job_id returns None)
SourcePostings(a) ==
    CASE a = "careers24" -> {Posting(a, None, "dev", "acme", "jhb", 72)}
      [] a = "pnet" -> {Posting(a, "7", "dev", "acme", "jhb", 88)}
      [] a = "indeed" -> {Posting(a, "7", "dev", "acme", "jhb", 65)}
      [] a = "linkedin" -> {Posting(a, "8", "ops", "bolt", "cpt", 90)}
      [] OTHER -> {Posting(a, "9", "dev", "acme", "jhb", 72)}

RECURSIVE ListsUpTo(_, _)
ListsUpTo(S, n) ==
    IF n = 0 THEN {<<>>}
    ELSE ListsUpTo(S, n - 1)
            \cup {Append(l, x) : l \in {y \in ListsUpTo(S, n - 1) : Len(y) = n - 1},
                                 x \in S}

\* scraper.scrape(preferences) raises, or returns a list of postings: any
\* list of up to MaxFeed postings for careers24, the one posting of the source
\* for the others
FeedsOf(a) ==
    {[raises |-> TRUE, jobs |-> <<>>]}
        \cup {[raises |-> FALSE, jobs |-> l] :
                l \in IF a = "careers24" THEN ListsUpTo(SourcePostings(a), MaxFeed)
                      ELSE {<<p>> : p \in SourcePostings(a)}}

\* one behaviour per registered scraper, in registration order
RECURSIVE FeedSeqs(_)
FeedSeqs(n) ==
    IF n = 0 THEN {<<>>}
    ELSE {Append(fs, f) : fs \in FeedSeqs(n - 1), f \in FeedsOf(ScraperNames[n])}

\* scrape_source (line 86-93): an adapter that raises counts as []
ScrapeSource(feed) == IF feed.raises THEN <<>> ELSE feed.jobs

\* a combine loop that stops at the first empty result instead of skipping it
RECURSIVE CombineUntilEmpty(_, _)
CombineUntilEmpty(results, i) ==
    IF i > Len(results) \/ results[i] = <<>> THEN <<>>
    ELSE results[i] \o CombineUntilEmpty(results, i + 1)

\* line 59-68: the results of gather, in the order of the tasks, each extended
\* onto all_jobs when it is truthy
RECURSIVE CombineFrom(_, _)
CombineFrom(results, i) ==
    IF i > Len(results) THEN <<>>
    ELSE (IF results[i] # <<>> THEN results[i] ELSE <<>>) \o CombineFrom(results, i + 1)
Combine(results) == CombineFrom(results, 1)

\* line 103: the identifier remove_duplicates builds
JobId(job) ==
    Str(job.source) \o "_" \o Str(job.job_id) \o "_" \o Str(job.title)
        \o "_" \o Str(job.company)

\* a loop that loses its place when it drops a posting: the posting after a
\* duplicate is kept unexamined
RECURSIVE DedupSkipping(_, _, _)
DedupSkipping(js, i, seen) ==
    IF i > Len(js) THEN <<>>
    ELSE IF JobId(js[i]) \notin seen
         THEN <<js[i]>> \o DedupSkipping(js, i + 1, seen \cup {JobId(js[i])})
         ELSE IF i + 1 > Len(js) THEN <<>>
              ELSE <<js[i + 1]>>
                     \o DedupSkipping(js, i + 2, seen \cup {JobId(js[i + 1])})

\* a loop that keeps the last posting of every identifier instead of the first
RECURSIVE DedupKeepLast(_, _, _)
DedupKeepLast(js, i, seen) ==
    IF i > Len(js) THEN <<>>
    ELSE IF \A j \in (i + 1)..Len(js) : JobId(js[j]) # JobId(js[i])
         THEN <<js[i]>> \o DedupKeepLast(js, i + 1, seen)
         ELSE DedupKeepLast(js, i + 1, seen)

\* remove_duplicates (line 95-109)
RECURSIVE DedupFrom(_, _, _)
DedupFrom(js, i, seen) ==
    IF i > Len(js) THEN <<>>
    ELSE IF JobId(js[i]) \notin seen
         THEN <<js[i]>> \o DedupFrom(js, i + 1, seen \cup {JobId(js[i])})
         ELSE DedupFrom(js, i + 1, seen)
RemoveDuplicates(js) == DedupFrom(js, 1, {})

\* preferences without the key 'min_match_score'
NoMin == -1
\* the preferences scrape_for_user is called with are the user's
PrefsOf(u) ==
    IF u = "u1" THEN [min_match_score |-> NoMin] ELSE [min_match_score |-> 80]
\* preferences.get('min_match_score', 70)
MinMatchScore(prefs) ==
    IF prefs.min_match_score = NoMin THEN 70 ELSE prefs.min_match_score

\* JobMatcher.calculate_match_score: an integer in [0, 100] that depends on the
\* posting and the preferences only
CalculateMatchScore(job, prefs) == job.fit

\* a matcher that drops a posting scoring exactly the minimum
RECURSIVE MatchFromStrict(_, _, _)
MatchFromStrict(js, i, prefs) ==
    IF i > Len(js) THEN <<>>
    ELSE IF CalculateMatchScore(js[i], prefs) > MinMatchScore(prefs)
         THEN <<[source |-> js[i].source, job_id |-> js[i].job_id,
                 title |-> js[i].title, company |-> js[i].company,
                 location |-> js[i].location, fit |-> js[i].fit,
                 match_score |-> CalculateMatchScore(js[i], prefs)]>>
                 \o MatchFromStrict(js, i + 1, prefs)
         ELSE MatchFromStrict(js, i + 1, prefs)

\* match_jobs_to_user (line 111-130)
RECURSIVE MatchFrom(_, _, _)
MatchFrom(js, i, prefs) ==
    IF i > Len(js) THEN <<>>
    ELSE IF CalculateMatchScore(js[i], prefs) >= MinMatchScore(prefs)
         THEN <<[source |-> js[i].source, job_id |-> js[i].job_id,
                 title |-> js[i].title, company |-> js[i].company,
                 location |-> js[i].location, fit |-> js[i].fit,
                 match_score |-> CalculateMatchScore(js[i], prefs)]>>
                 \o MatchFrom(js, i + 1, prefs)
         ELSE MatchFrom(js, i + 1, prefs)
MatchJobsToUser(js, prefs) == SortByMatchScore(MatchFrom(js, 1, prefs))

\* a cache that serves the user's latest entry whatever its hour and age
ServedForever(cache, u, t) ==
    {k \in DOMAIN cache :
        k[1] = u /\ \A j \in DOMAIN cache : j[1] = u => j[2] <= k[2]}

\* line 45-48: the key of the entry scrape_for_user serves at time t (none or
\* one): the entry under the cache key of (user, hour of t), if it is younger
\* than cache_expiry
Served(cache, u, t) ==
    {k \in DOMAIN cache : k = CacheKey(u, t) /\ t - cache[k].timestamp < cache_expiry}

NoCall == [d \in Calls |-> "idle"]

SInit ==
    /\ now = 0
    /\ job_cache = <<>>
    /\ feeds \in FeedSeqs(Len(ScraperNames))
    /\ invocations = [a \in Scrapers |-> 0]
    /\ cpc = [c \in Calls |-> "idle"]
    /\ cuser = [c \in Calls |-> "u1"]
    /\ cprefs = [c \in Calls |-> [min_match_score |-> NoMin]]
    /\ ckey = [c \in Calls |-> <<"u1", 0>>]
    /\ cstart = [c \in Calls |-> 0]
    /\ cseen = [c \in Calls |-> NoCall]
    /\ chit = [c \in Calls |-> FALSE]
    /\ cage = [c \in Calls |-> 0]
    /\ all_jobs = [c \in Calls |-> <<>>]
    /\ cret = [c \in Calls |-> <<>>]

\* line 37-56: the cache check; on a miss one scrape task per adapter is made
\* and the call waits on gather
ScrapeStart(c, u, prefs) ==
    /\ cpc[c] = "idle"
    /\ \A d \in Calls : d < c => cpc[d] # "idle"
    /\ cuser' = [cuser EXCEPT ![c] = u]
    /\ cprefs' = [cprefs EXCEPT ![c] = prefs]
    /\ ckey' = [ckey EXCEPT ![c] = CacheKey(u, now)]
    /\ cstart' = [cstart EXCEPT ![c] = now]
    /\ cseen' = [cseen EXCEPT ![c] = cpc]
    /\ IF Served(job_cache, u, now) # {}
       THEN /\ cpc' = [cpc EXCEPT ![c] = "done"]
            /\ chit' = [chit EXCEPT ![c] = TRUE]
            /\ \E k \in Served(job_cache, u, now) :
                  /\ cage' = [cage EXCEPT ![c] = now - job_cache[k].timestamp]
                  /\ cret' = [cret EXCEPT ![c] = job_cache[k].jobs]
            /\ UNCHANGED invocations
       ELSE /\ cpc' = [cpc EXCEPT ![c] = "awaiting"]
            /\ invocations' = [a \in Scrapers |-> invocations[a] + 1]
            /\ UNCHANGED <<chit, cage, cret>>
    /\ UNCHANGED <<now, job_cache, feeds, all_jobs>>
    /\ UNCHANGED <<avars, xvars>>

\* line 59-84: gather returns; combine, remove_duplicates, match, cache, return
ScrapeFinish(c) ==
    /\ cpc[c] = "awaiting"
    /\ LET results == [i \in DOMAIN ScraperNames |-> ScrapeSource(feeds[i])]
           combined == Combine(results)
           matched_jobs == MatchJobsToUser(RemoveDuplicates(combined), cprefs[c])
           entry == [jobs |-> matched_jobs, timestamp |-> now, count |-> Len(matched_jobs)]
       IN /\ all_jobs' = [all_jobs EXCEPT ![c] = combined]
          /\ job_cache' = [k \in DOMAIN job_cache \cup {ckey[c]} |->
                              IF k = ckey[c] THEN entry ELSE job_cache[k]]
          /\ cret' = [cret EXCEPT ![c] = matched_jobs]
    /\ cpc' = [cpc EXCEPT ![c] = "done"]
    /\ UNCHANGED <<now, feeds, invocations, cuser, cprefs, ckey, cstart, cseen,
                   chit, cage>>
    /\ UNCHANGED <<avars, xvars>>

\* the clock moves on
Tick ==
    /\ now < MaxTime
    /\ now' = now + 1
    /\ UNCHANGED <<job_cache, feeds, invocations, cpc, cuser, cprefs, ckey, cstart,
                   cseen, chit, cage, all_jobs, cret>>
    /\ UNCHANGED <<avars, xvars>>

\* ------------------------------------- the list functions called on a list
\* the postings the lists are made of: two careers24 postings that differ in
\* location only (careers24 postings carry no job_id), and three postings of
\* other sources
RawPostings ==
    {Posting("careers24", None, "dev", "acme", "jhb", 72),
     Posting("careers24", None, "dev", "acme", "cpt", 88),
     Posting("pnet", "7", "ops", "bolt", "jhb", 65),
     Posting("indeed", "7", "dev", "acme", "jhb", 70),
     Posting("linkedin", "8", "dev", "acme", "jhb", 72),
     \* an underscore in a field, and a job_id that is the text 'None'
     Posting("pnet", "7", "ops_lead", "bolt", "dbn", 80),
     Posting("pnet", "7_ops", "lead", "bolt", "plz", 75),
     Posting("careers24", "None", "dev", "acme", "dbn", 80)}
RawLists == ListsUpTo(RawPostings, MaxRaw)
\* preferences without 'min_match_score', and with a minimum of 72
PrefsValues == {[min_match_score |-> NoMin], [min_match_score |-> 72]}

\* scraper.py line 36-41: the cosine similarity of the embeddings of the job's
\* description and of the user's skills, a float held here in hundredths
AiSimilarity(job) == job.fit

\* scraper.py line 38-47: jobs more similar than 0.75 get the similarity as
\* their match_score (in hundredths here) and are sorted by it, descending
RECURSIVE AiMatchFrom(_, _)
AiMatchFrom(js, i) ==
    IF i > Len(js) THEN <<>>
    ELSE IF AiSimilarity(js[i]) > 75
         THEN <<[source |-> js[i].source, job_id |-> js[i].job_id,
                 title |-> js[i].title, company |-> js[i].company,
                 location |-> js[i].location, fit |-> js[i].fit,
                 match_score |-> AiSimilarity(js[i])]>> \o AiMatchFrom(js, i + 1)
         ELSE AiMatchFrom(js, i + 1)
AiMatchJobs(js) == SortByMatchScore(AiMatchFrom(js, 1))

FInit ==
    /\ raw_jobs \in RawLists
    /\ fpc = "input"
    /\ unique_jobs = <<>>
    /\ unique_again = <<>>
    /\ fprefs = [min_match_score |-> NoMin]
    /\ fmatched = <<>>
    /\ ai_outcome = "none"
    /\ ai_matched = <<>>

\* remove_duplicates(raw_jobs)
RemoveDuplicatesCall ==
    /\ fpc = "input"
    /\ unique_jobs' = RemoveDuplicates(raw_jobs)
    /\ fpc' = "unique"
    /\ UNCHANGED <<raw_jobs, unique_again, fprefs, fmatched, ai_outcome, ai_matched>>
    /\ UNCHANGED <<avars, svars, cvars, dvars, yvars>>

\* remove_duplicates called on its own result
RemoveDuplicatesAgain ==
    /\ fpc = "unique"
    /\ unique_again' = RemoveDuplicates(unique_jobs)
    /\ fpc' = "unique_again"
    /\ UNCHANGED <<raw_jobs, unique_jobs, fprefs, fmatched, ai_outcome, ai_matched>>
    /\ UNCHANGED <<avars, svars, cvars, dvars, yvars>>

\* match_jobs_to_user(raw_jobs, prefs)
MatchJobsToUserCall(prefs) ==
    /\ fpc = "input"
    /\ fprefs' = prefs
    /\ fmatched' = MatchJobsToUser(raw_jobs, prefs)
    /\ fpc' = "matched"
    /\ UNCHANGED <<raw_jobs, unique_jobs, unique_again, ai_outcome, ai_matched>>
    /\ UNCHANGED <<avars, svars, cvars, dvars, yvars>>

\* ai_match_jobs(raw_jobs, user_profile). Line 41 looks cosine_similarity up
\* in the globals of scraper.py, which imports no such name: unless the
\* importing program has bound it there, the first job raises NameError
AiMatchJobsCall(cosine) ==
    /\ fpc = "input"
    /\ IF cosine = "unbound" /\ raw_jobs # <<>>
       THEN ai_outcome' = "raised" /\ ai_matched' = <<>>
       ELSE ai_outcome' = "returned" /\ ai_matched' = AiMatchJobs(raw_jobs)
    /\ fpc' = "ai_matched"
    /\ UNCHANGED <<raw_jobs, unique_jobs, unique_again, fprefs, fmatched>>
    /\ UNCHANGED <<avars, svars, cvars, dvars, yvars>>

\* ---------------------------- apply_for_jobs calls of one user side by side
\* A call runs without interruption from one await that suspends to the next:
\* asyncio.sleep(2) in apply_for_job (line 130) and the politeness delay
\* (line 100); initialize, the lookups, log_application and close await nothing
\* that suspends.
Runs == 1..NumRuns
Instances == {1, 2}
NoDriver == 0

\* lines 110-115 and 86-88, 117-130: the loop goes on to its next candidate
\* and suspends at the page load; with no candidate left it closes the driver
\* and returns. A candidate that finds self.driver None fails at once (line
\* 129 raises inside the try of apply_for_job), so do all that follow it,
\* each logged as 'failed' (line 104); failed is the 'failed' rows so far.
Proceed(c, left, lost, drv, open, failed) ==
    LET i == rinst'[c]
    IN IF left > 0 /\ drv[i] # NoDriver
       THEN /\ rpc' = [rpc EXCEPT ![c] = "page_load"]
            /\ rleft' = [rleft EXCEPT ![c] = left]
            /\ rlost' = [rlost EXCEPT ![c] = lost]
            /\ inst_driver' = drv
            /\ sessions' = open
            /\ rows_failed' = failed
       ELSE /\ rpc' = [rpc EXCEPT ![c] = "returned"]
            /\ rleft' = [rleft EXCEPT ![c] = 0]
            /\ rlost' = [rlost EXCEPT ![c] = lost + left]
            /\ inst_driver' = [drv EXCEPT ![i] = NoDriver]
            /\ sessions' = open \ {drv[i]}
            /\ rows_failed' = failed + left

CInit ==
    /\ inst_driver = [i \in Instances |-> NoDriver]
    /\ sessions = {}
    /\ rpc = [c \in Runs |-> "idle"]
    /\ rinst = [c \in Runs |-> 1]
    /\ rleft = [c \in Runs |-> 0]
    /\ rlost = [c \in Runs |-> 0]
    /\ daily_limit \in 0..MaxBatch
    /\ rows_applied = 0
    /\ rows_failed = 0

\* lines 63-88: call c is made on instance i with a list of n jobs. It counts
\* the user's rows of today (line 74, 591-605), returns at once with the
\* quota used up (line 77-79) and else goes for the first
\* remaining_applications of its jobs (line 81).
\* initialize() starts a Chrome session only when the instance has none
RunStart(c, i, n) ==
    /\ rpc[c] = "idle"
    /\ \A d \in Runs : d < c => rpc[d] # "idle"
    /\ rinst' = [rinst EXCEPT ![c] = i]
    /\ UNCHANGED <<daily_limit, rows_applied>>
    /\ LET drv == IF inst_driver[i] = NoDriver
                  THEN [inst_driver EXCEPT ![i] = c] ELSE inst_driver
           open == sessions \cup {drv[i]}
           remaining ==
               RemainingApplications(daily_limit, rows_applied + rows_failed)
       IN IF QuotaReached(remaining)
          THEN /\ rpc' = [rpc EXCEPT ![c] = "returned"]
               /\ inst_driver' = drv
               /\ sessions' = open
               /\ UNCHANGED <<rleft, rlost, rows_failed>>
          ELSE Proceed(c, Min(n, remaining), 0, drv, open, rows_failed)
    /\ UNCHANGED <<avars, svars, fvars, dvars, yvars>>

\* lines 130-156 and 90-108: the page load is over; the candidate is filled in
\* and submitted on self.driver, or fails, and its row is written (line 94,
\* 104). A success is followed by the politeness delay, a failure by the next
\* candidate at once
RunCandidate(c, success) ==
    /\ rpc[c] = "page_load"
    /\ UNCHANGED <<rinst, daily_limit>>
    /\ IF inst_driver[rinst[c]] = NoDriver
       THEN /\ Proceed(c, rleft[c] - 1, rlost[c] + 1, inst_driver, sessions,
                       rows_failed + 1)
            /\ UNCHANGED rows_applied
       ELSE IF success
            THEN /\ rpc' = [rpc EXCEPT ![c] = "delay"]
                 /\ rleft' = [rleft EXCEPT ![c] = @ - 1]
                 /\ rows_applied' = rows_applied + 1
                 /\ UNCHANGED <<inst_driver, sessions, rlost, rows_failed>>
            ELSE /\ Proceed(c, rleft[c] - 1, rlost[c], inst_driver, sessions,
                            rows_failed + 1)
                 /\ UNCHANGED rows_applied
    /\ UNCHANGED <<avars, svars, fvars, dvars, yvars>>

\* line 100: the politeness delay is over
RunAfterDelay(c) ==
    /\ rpc[c] = "delay"
    /\ UNCHANGED <<rinst, daily_limit, rows_applied>>
    /\ Proceed(c, rleft[c], rlost[c], inst_driver, sessions, rows_failed)
    /\ UNCHANGED <<avars, svars, fvars, dvars, yvars>>

\* ------------------------------------------- detect_form_type on a page
\* the fragments URLs are made of; none is part of another ('apply' is not in
\* 'easyApply': the test of line 164-166 is case sensitive)
UrlFragments ==
    {"linkedin.com", "indeed.com", "careers24.com", "pnet.co.za", "easyApply",
     "apply", "/jobs/"}
Urls == ListsUpTo(UrlFragments, MaxUrl)
\* 'fragment' in current_url
In(fragment, url) == \E i \in DOMAIN url : url[i] = fragment

FormTypes ==
    {"linkedin_easy_apply", "indeed_apply", "careers24_apply", "pnet_apply", "generic"}

\* a detector that looks for the buttons before it looks at the URL
DetectStructureFirst(url, easy, indeed) ==
    IF easy
    THEN [tag |-> "linkedin_easy_apply", calls |-> <<"current_url", "find_element">>]
    ELSE IF indeed
    THEN [tag |-> "indeed_apply",
          calls |-> <<"current_url", "find_element", "find_element">>]
    ELSE IF In("linkedin.com", url) /\ In("easyApply", url)
    THEN [tag |-> "linkedin_easy_apply",
          calls |-> <<"current_url", "find_element", "find_element">>]
    ELSE IF In("indeed.com", url) /\ In("apply", url)
    THEN [tag |-> "indeed_apply",
          calls |-> <<"current_url", "find_element", "find_element">>]
    ELSE IF In("careers24.com", url)
    THEN [tag |-> "careers24_apply",
          calls |-> <<"current_url", "find_element", "find_element">>]
    ELSE IF In("pnet.co.za", url)
    THEN [tag |-> "pnet_apply",
          calls |-> <<"current_url", "find_element", "find_element">>]
    ELSE [tag |-> "generic", calls |-> <<"current_url", "find_element", "find_element">>]

\* detect_form_type (line 158-189) on a live session: the tag it returns and
\* the calls it makes on the driver
DetectFormType(url, easy, indeed) ==
    IF In("linkedin.com", url) /\ In("easyApply", url)
    THEN [tag |-> "linkedin_easy_apply", calls |-> <<"current_url">>]
    ELSE IF In("indeed.com", url) /\ In("apply", url)
    THEN [tag |-> "indeed_apply", calls |-> <<"current_url">>]
    ELSE IF In("careers24.com", url)
    THEN [tag |-> "careers24_apply", calls |-> <<"current_url">>]
    ELSE IF In("pnet.co.za", url)
    THEN [tag |-> "pnet_apply", calls |-> <<"current_url">>]
    ELSE IF easy
    THEN [tag |-> "linkedin_easy_apply", calls |-> <<"current_url", "find_element">>]
    ELSE IF indeed
    THEN [tag |-> "indeed_apply",
          calls |-> <<"current_url", "find_element", "find_element">>]
    ELSE [tag |-> "generic", calls |-> <<"current_url", "find_element", "find_element">>]

DInit ==
    /\ current_url \in Urls
    /\ easy_apply_button \in BOOLEAN
    /\ indeed_apply_button \in BOOLEAN
    /\ session_alive \in BOOLEAN
    /\ dpc = "page"
    /\ form_type = "none"
    /\ driver_calls = <<>>

\* detect_form_type is called; on a session that is gone line 161 raises
DetectFormTypeCall ==
    /\ dpc = "page"
    /\ IF session_alive
       THEN LET r == DetectFormType(current_url, easy_apply_button, indeed_apply_button)
            IN /\ form_type' = r.tag
               /\ driver_calls' = r.calls
               /\ dpc' = "returned"
       ELSE /\ form_type' = "none"
            /\ driver_calls' = <<"current_url">>
            /\ dpc' = "raised"
    /\ UNCHANGED <<current_url, easy_apply_button, indeed_apply_button, session_alive>>
    /\ UNCHANGED <<avars, svars, fvars, cvars, yvars>>

\* the browser goes to another page
Navigate(url, easy, indeed) ==
    /\ dpc # "page"
    /\ session_alive
    /\ current_url' = url
    /\ easy_apply_button' = easy
    /\ indeed_apply_button' = indeed
    /\ dpc' = "page"
    /\ form_type' = "none"
    /\ driver_calls' = <<>>
    /\ UNCHANGED session_alive
    /\ UNCHANGED <<avars, svars, fvars, cvars, yvars>>

\* ------------------------------ log_application, statement by statement
Workers == 1..NumWorkers

\* the variables of the apply_for_jobs call, which log_application leaves alone
acall == <<driver, user_data, pc, jobs, max_daily, applications_today,
           remaining_applications, jobs_to_apply, successful_applications, idx,
           attempted, notified, slept, last_delay, user_id, db_mark, created,
           init_error>>

LInit ==
    /\ lpc = [w \in Workers |-> "idle"]
    /\ luser = [w \in Workers |-> [total_applications |-> 0,
                                    successful_applications |-> 0]]
    /\ lsuccess = [w \in Workers |-> FALSE]
    /\ lcalls = [w \in Workers |-> 0]

\* a statement of log_application met a database error: the except of line
\* 634 ends the call
LogFails(w) ==
    /\ db_errors < MaxDbErrors
    /\ db_errors' = db_errors + 1
    /\ lpc' = [lpc EXCEPT ![w] = "idle"]

\* line 613-624: JobApplication.objects.create
LogCreate(w, success, ok) ==
    /\ lpc[w] = "idle"
    /\ lcalls[w] < MaxLogs
    /\ lcalls' = [lcalls EXCEPT ![w] = @ + 1]
    /\ lsuccess' = [lsuccess EXCEPT ![w] = success]
    /\ IF ok
       THEN /\ JobApplication' =
                  LogRows(JobApplication, RunUser,
                          [id |-> Len(JobApplication) + 1], success, FALSE, TRUE)
            /\ lpc' = [lpc EXCEPT ![w] = "created"]
            /\ UNCHANGED db_errors
       ELSE /\ LogFails(w)
            /\ UNCHANGED JobApplication
    /\ UNCHANGED <<total_applications, user_successful, luser>>
    /\ UNCHANGED <<acall, svars, fvars, cvars, dvars, pvars>>

\* line 628: user = User.objects.get(id=user_id)
LogGetUser(w, ok) ==
    /\ lpc[w] = "created"
    /\ IF ok
       THEN /\ luser' = [luser EXCEPT ![w] =
                            [total_applications |-> total_applications[RunUser],
                             successful_applications |-> user_successful[RunUser]]]
            /\ lpc' = [lpc EXCEPT ![w] = "loaded"]
            /\ UNCHANGED db_errors
       ELSE /\ LogFails(w)
            /\ UNCHANGED luser
    /\ UNCHANGED <<JobApplication, total_applications, user_successful, lsuccess,
                   lcalls>>
    /\ UNCHANGED <<acall, svars, fvars, cvars, dvars, pvars>>

\* line 629-632: the counters of the loaded object are raised and the object
\* is saved, every field of it written back
LogSaveUser(w, ok) ==
    /\ lpc[w] = "loaded"
    /\ IF ok
       THEN /\ total_applications' =
                  [total_applications EXCEPT
                      ![RunUser] = luser[w].total_applications + 1]
            /\ user_successful' =
                  [user_successful EXCEPT
                      ![RunUser] = luser[w].successful_applications
                                      + (IF lsuccess[w] THEN 1 ELSE 0)]
            /\ lpc' = [lpc EXCEPT ![w] = "idle"]
            /\ UNCHANGED db_errors
       ELSE /\ LogFails(w)
            /\ UNCHANGED <<total_applications, user_successful>>
    /\ UNCHANGED <<JobApplication, luser, lsuccess, lcalls>>
    /\ UNCHANGED <<acall, svars, fvars, cvars, dvars, pvars>>

\* ------------------------------------------- apply_for_job on a page
\* 'k' in f, on strings
Has(k, f) == \E i \in 0..(Len(f) - Len(k)) : SubSeq(f, i + 1, i + Len(k)) = k

\* user.get(key, default)
Get(user, key, default) == IF key \in DOMAIN user THEN user[key] ELSE default

\* the truth value Python gives a consent flag
Truthy(v) == v = TRUE

\* str() of an int, and of a float holding a whole number
StrInt(n) == ToString(n)
StrFloat(n) == ToString(n) \o ".0"

\* the dict load_user_data builds (line 531-552); it has no 'race', 'gender'
\* or 'has_disability' key
LoadedUserData(consent) ==
    ("id" :> "u1") @@ ("email" :> "thandi@mail.za") @@ ("first_name" :> "Thandi")
    @@ ("last_name" :> "Nkosi") @@ ("full_name" :> "Thandi Nkosi")
    @@ ("phone" :> "0821234567") @@ ("sa_id_number" :> "9001015009087")
    @@ ("years_experience" :> 5) @@ ("salary_expectation" :> 300000)
    @@ ("highest_qualification" :> "BSc") @@ ("street_address" :> "1 Long St")
    @@ ("city" :> "Cape Town") @@ ("province" :> "WC") @@ ("postal_code" :> "8001")
    @@ ("education_institution" :> "") @@ ("cv_path" :> "cv.pdf")
    @@ ("photo_path" :> "photo.jpg") @@ ("share_demographics" :> consent)
    @@ ("is_unemployed" :> TRUE)

\* the dict after a failed load (line 554-556)
EmptyUserData == [k \in {} |-> ""]

UserDataValues == {EmptyUserData} \cup {LoadedUserData(c) : c \in BOOLEAN}

\* get_field_value without the consent tests of line 508-512
GetFieldValueUngated(field_name, field_type, user) ==
    IF Has("name", field_name)
    THEN IF Has("first", field_name) THEN Get(user, "first_name", "")
         ELSE IF Has("last", field_name) THEN Get(user, "last_name", "")
         ELSE IF Has("full", field_name) THEN Get(user, "full_name", "")
         ELSE ""
    ELSE IF Has("email", field_name) THEN Get(user, "email", "")
    ELSE IF Has("phone", field_name) \/ Has("mobile", field_name)
            \/ Has("tel", field_name)
    THEN Get(user, "phone", "")
    ELSE IF Has("address", field_name)
    THEN IF Has("street", field_name) THEN Get(user, "street_address", "")
         ELSE IF Has("city", field_name) THEN Get(user, "city", "")
         ELSE IF Has("province", field_name) \/ Has("state", field_name)
         THEN Get(user, "province", "")
         ELSE IF Has("postal", field_name) \/ Has("zip", field_name)
         THEN Get(user, "postal_code", "")
         ELSE ""
    ELSE IF Has("id", field_name) \/ Has("identity", field_name)
    THEN Get(user, "sa_id_number", "")
    ELSE IF Has("experience", field_name)
    THEN IF "years_experience" \in DOMAIN user
         THEN StrInt(user["years_experience"]) ELSE "3"
    ELSE IF Has("salary", field_name) \/ Has("compensation", field_name)
    THEN IF "salary_expectation" \in DOMAIN user
         THEN StrFloat(user["salary_expectation"]) ELSE "300000"
    ELSE IF Has("notice", field_name) THEN "30"
    ELSE IF Has("availability", field_name)
    THEN IF Truthy(Get(user, "is_unemployed", TRUE)) THEN "Immediately"
         ELSE "30 days"
    ELSE IF Has("education", field_name) \/ Has("qualification", field_name)
    THEN Get(user, "highest_qualification", "")
    ELSE IF Has("university", field_name) \/ Has("college", field_name)
            \/ Has("institution", field_name)
    THEN Get(user, "education_institution", "")
    ELSE IF Has("race", field_name) THEN Get(user, "race", "")
    ELSE IF Has("gender", field_name) THEN Get(user, "gender", "")
    ELSE IF Has("disability", field_name)
    THEN IF ~Truthy(Get(user, "has_disability", FALSE)) THEN "No" ELSE "Yes"
    ELSE ""

\* get_field_value (line 455-515); field_name is the lowercased name, id or
\* placeholder of the field
GetFieldValue(field_name, field_type, user) ==
    IF Has("name", field_name)
    THEN IF Has("first", field_name) THEN Get(user, "first_name", "")
         ELSE IF Has("last", field_name) THEN Get(user, "last_name", "")
         ELSE IF Has("full", field_name) THEN Get(user, "full_name", "")
         ELSE ""
    ELSE IF Has("email", field_name) THEN Get(user, "email", "")
    ELSE IF Has("phone", field_name) \/ Has("mobile", field_name)
            \/ Has("tel", field_name)
    THEN Get(user, "phone", "")
    ELSE IF Has("address", field_name)
    THEN IF Has("street", field_name) THEN Get(user, "street_address", "")
         ELSE IF Has("city", field_name) THEN Get(user, "city", "")
         ELSE IF Has("province", field_name) \/ Has("state", field_name)
         THEN Get(user, "province", "")
         ELSE IF Has("postal", field_name) \/ Has("zip", field_name)
         THEN Get(user, "postal_code", "")
         ELSE ""
    ELSE IF Has("id", field_name) \/ Has("identity", field_name)
    THEN Get(user, "sa_id_number", "")
    ELSE IF Has("experience", field_name)
    THEN IF "years_experience" \in DOMAIN user
         THEN StrInt(user["years_experience"]) ELSE "3"
    ELSE IF Has("salary", field_name) \/ Has("compensation", field_name)
    THEN IF "salary_expectation" \in DOMAIN user
         THEN StrFloat(user["salary_expectation"]) ELSE "300000"
    ELSE IF Has("notice", field_name) THEN "30"
    ELSE IF Has("availability", field_name)
    THEN IF Truthy(Get(user, "is_unemployed", TRUE)) THEN "Immediately"
         ELSE "30 days"
    ELSE IF Has("education", field_name) \/ Has("qualification", field_name)
    THEN Get(user, "highest_qualification", "")
    ELSE IF Has("university", field_name) \/ Has("college", field_name)
            \/ Has("institution", field_name)
    THEN Get(user, "education_institution", "")
    ELSE IF Has("race", field_name) /\ Truthy(Get(user, "share_demographics", FALSE))
    THEN Get(user, "race", "")
    ELSE IF Has("gender", field_name)
            /\ Truthy(Get(user, "share_demographics", FALSE))
    THEN Get(user, "gender", "")
    ELSE IF Has("disability", field_name)
            /\ Truthy(Get(user, "share_demographics", FALSE))
    THEN IF ~Truthy(Get(user, "has_disability", FALSE)) THEN "No" ELSE "Yes"
    ELSE ""

\* a form field as the filler sees it: its lowercased name, its type (the
\* type attribute or the tag name) and whether it is readonly or disabled
Field(name, type, locked) == [name |-> name, type |-> type, locked |-> locked]
FormFields ==
    {Field("first_name", "text", FALSE), Field("candidate_gender", "text", FALSE),
     Field("gender", "select", FALSE), Field("race", "text", FALSE),
     Field("disability", "select", FALSE)}
Forms == ListsUpTo(FormFields, MaxFields)

\* the pages a job can lead to: the URL, the two buttons detect_form_type looks
\* for, the form, the native submit buttons and submit inputs, and LinkedIn's
\* 'Submit' button and confirmation text
ApplyUrls ==
    {<<"linkedin.com", "easyApply">>, <<"indeed.com", "apply">>,
     <<"careers24.com", "/jobs/">>, <<"pnet.co.za">>, <<"/jobs/">>}
Pages ==
    [url : ApplyUrls, easy : BOOLEAN, indeed : BOOLEAN, fields : Forms,
     buttons : {0, 2}, inputs : {0, 1}, submit : BOOLEAN, confirmation : BOOLEAN]
BlankPage ==
    [url |-> <<>>, easy |-> FALSE, indeed |-> FALSE, fields |-> <<>>,
     buttons |-> 0, inputs |-> 0, submit |-> FALSE, confirmation |-> FALSE]

\* line 386-417: the fields from position k on, each given the value
\* get_field_value finds for it, unless it is locked or the value is empty
RECURSIVE FillFields(_, _, _)
FillFields(fields, k, user) ==
    IF k > Len(fields) THEN <<>>
    ELSE LET value == GetFieldValue(fields[k].name, fields[k].type, user)
             rest == FillFields(fields, k + 1, user)
         IN IF fields[k].locked \/ value = "" THEN rest
            ELSE <<[field |-> k, value |-> value,
                    how |-> IF fields[k].type = "select" THEN "select"
                            ELSE "send_keys"]>> \o rest

\* fill_generic_application_form (line 375-453): what it writes, what it
\* clicks and what it returns
FillGenericApplicationForm(pg, user, flt) ==
    LET written == FillFields(pg.fields, 1, user)
        control == IF pg.buttons > 0 THEN <<"button[1]">>
                   ELSE IF pg.inputs > 0 THEN <<"input[1]">>
                   ELSE <<>>
    IN IF flt = "fill" \/ (flt = "click" /\ control # <<>>)
       THEN [typed |-> written, clicks |-> <<>>, success |-> FALSE]
       ELSE [typed |-> written, clicks |-> control, success |-> control # <<>>]

\* line 205-218: the fields with 'contact' in their id
RECURSIVE ContactFields(_, _, _)
ContactFields(fields, k, user) ==
    IF k > Len(fields) THEN <<>>
    ELSE LET n == fields[k].name
             rest == ContactFields(fields, k + 1, user)
             key == IF Has("email", n) THEN "email"
                    ELSE IF Has("phone", n) THEN "phone"
                    ELSE IF Has("name", n) /\ Has("first", n) THEN "first_name"
                    ELSE IF Has("name", n) /\ Has("last", n) THEN "last_name"
                    ELSE "none"
         IN IF ~Has("contact", n) \/ key = "none" THEN rest
            ELSE <<[field |-> k, value |-> Get(user, key, ""),
                    how |-> "send_keys"]>> \o rest

\* a LinkedIn filler that reports success only when it finds the confirmation
FillLinkedinNeedsConfirmation(pg, user, flt) ==
    LET written == ContactFields(pg.fields, 1, user)
        opened == IF pg.easy THEN <<"Easy Apply">> ELSE <<>>
    IN IF flt = "fill" \/ flt = "click" \/ ~pg.submit
       THEN [typed |-> written, clicks |-> opened, success |-> FALSE]
       ELSE [typed |-> written, clicks |-> Append(opened, "Submit"),
             success |-> pg.confirmation]

\* fill_linkedin_easy_apply (line 191-256)
FillLinkedinEasyApply(pg, user, flt) ==
    LET written == ContactFields(pg.fields, 1, user)
        opened == IF pg.easy THEN <<"Easy Apply">> ELSE <<>>
    IN IF flt = "fill" \/ flt = "click" \/ ~pg.submit
       THEN [typed |-> written, clicks |-> opened, success |-> FALSE]
       ELSE [typed |-> written, clicks |-> Append(opened, "Submit"),
             success |-> IF pg.confirmation THEN TRUE ELSE TRUE]

\* line 136-145: the method apply_for_job calls for a tag
FillerOf(tag) ==
    CASE tag = "linkedin_easy_apply" -> "fill_linkedin_easy_apply"
      [] tag = "indeed_apply" -> "fill_indeed_apply"
      [] tag = "careers24_apply" -> "fill_careers24_apply"
      [] tag = "pnet_apply" -> "fill_pnet_apply"
      [] OTHER -> "fill_generic_application_form"

\* the fill_* methods the class AutoApplier defines
Methods == {"fill_linkedin_easy_apply", "fill_generic_application_form"}

\* apply_for_job has not been called
PStart ==
    /\ jpc = "ready"
    /\ detected = "none"
    /\ filler = "none"
    /\ typed = <<>>
    /\ clicks = <<>>
    /\ applied = FALSE

PInit ==
    /\ user_fields \in UserDataValues
    /\ \/ has_apply_url = FALSE /\ fault = "none" /\ page = BlankPage
       \/ has_apply_url = TRUE /\ fault = "page_load" /\ page = BlankPage
       \/ has_apply_url = TRUE /\ fault \in {"none", "fill", "click"}
                               /\ page \in Pages
    /\ PStart

\* apply_for_job (line 117-156). Without an apply_url it returns False at line
\* 123; an exception of the driver, and the AttributeError of a fill_* method
\* that does not exist, end in the except of line 154
ApplyForJobOnPage ==
    /\ jpc = "ready"
    /\ jpc' = "returned"
    /\ IF ~has_apply_url \/ fault = "page_load"
       THEN /\ detected' = "none"
            /\ filler' = "none"
            /\ typed' = <<>>
            /\ clicks' = <<>>
            /\ applied' = FALSE
       ELSE LET tag == DetectFormType(page.url, page.easy, page.indeed).tag
                method == FillerOf(tag)
                out == IF method = "fill_linkedin_easy_apply"
                       THEN FillLinkedinEasyApply(page, user_fields, fault)
                       ELSE FillGenericApplicationForm(page, user_fields, fault)
            IN /\ detected' = tag
               /\ IF method \in Methods
                  THEN /\ filler' = method
                       /\ typed' = out.typed
                       /\ clicks' = out.clicks
                       /\ applied' = out.success
                  ELSE /\ filler' = "none"
                       /\ typed' = <<>>
                       /\ clicks' = <<>>
                       /\ applied' = FALSE
    /\ UNCHANGED <<has_apply_url, page, fault, user_fields>>
    /\ UNCHANGED <<avars, svars, fvars, cvars, dvars, lvars>>

\* ================================================================ claims
\* rows written by the call in progress
RunRows == SubSeq(JobApplication, db_mark + 1, Len(JobApplication))
RowsOf(id) == {i \in DOMAIN RunRows : RunRows[i].job = id}
RowsWith(id, st) == {i \in RowsOf(id) : RunRows[i].status = st}
NotificationsOf(id) == {i \in DOMAIN notified : notified[i][1] = id}
\* the quota left when the call started, from its argument and its count
QuotaAtStart ==
    IF max_daily - applications_today > 0 THEN max_daily - applications_today ELSE 0
\* the call has left the loop (it is about to close the driver, or has returned)
LoopOver == pc \in {"close", "returned"}
\* job a is scheduled before job b: higher score, or equal score and earlier input
Before(a, b) ==
    \/ ScoreKey(a) > ScoreKey(b)
    \/ ScoreKey(a) = ScoreKey(b) /\ a.id < b.id
Elems(s) == {s[i] : i \in DOMAIN s}

\* C1: in one call of apply_for_jobs the jobs returned as successful, and the
\* rows logged with status 'applied', never number more than
\* max(0, max_daily - applications_today) as computed when the call started.
C1_SuccessWithinQuota ==
    pc \notin {"idle", "raised"} =>
        /\ Len(successful_applications) <= QuotaAtStart
        /\ Cardinality({i \in DOMAIN RunRows : RunRows[i].status = "applied"})
              <= QuotaAtStart

\* a call that started with one application already made today, met a
\* notification error on the way and returned with its quota of two used up
C1_Witness ==
    /\ pc = "returned"
    /\ applications_today = 1 /\ max_daily = 3 /\ Len(jobs) = 3
    /\ Len(successful_applications) = 2
    /\ \E i \in DOMAIN notified : ~notified[i][3]

\* C2: when the call returns, the jobs it attempted are the first
\* min(len(jobs), remaining quota) jobs of the input ordered by descending
\* match_score, equal scores in input order.
C2_AttemptsAreSortedPrefix ==
    pc = "returned" =>
        /\ Len(attempted) = Min(Len(jobs), QuotaAtStart)
        /\ Elems(attempted) \subseteq Elems(jobs)
        /\ \A i, j \in DOMAIN attempted : i < j => Before(attempted[i], attempted[j])
        /\ \A a \in Elems(attempted), b \in Elems(jobs) \ Elems(attempted) : Before(a, b)
        /\ {jobs[i].id : i \in DOMAIN jobs} = 1..Len(jobs)

\* the input scored [90, 60, 95] with a quota of three was attempted as
\* [95, 90, 60]
C2_Witness ==
    /\ pc = "returned"
    /\ attempted = <<[id |-> 3, match_score |-> 95], [id |-> 1, match_score |-> 90],
                     [id |-> 2, match_score |-> 60]>>

\* two jobs of equal score were both attempted
C2_WitnessTie ==
    /\ pc = "returned"
    /\ \E i, j \in DOMAIN attempted :
          i < j /\ ScoreKey(attempted[i]) = ScoreKey(attempted[j])

\* C3: every candidate the loop has processed has exactly one attempt row,
\* whatever its outcome (stated for the runs in which the database accepted
\* every write, so that a missing row is not what refutes it).
C3_OneRecordPerCandidate ==
    (LoopOver /\ db_errors = 0) =>
        \A k \in DOMAIN attempted : Cardinality(RowsOf(attempted[k].id)) = 1

\* C4: every candidate brought to a terminal outcome, success or failure, has
\* had exactly one notify_user call.
C4_OneNotificationPerCandidate ==
    LoopOver =>
        \A k \in DOMAIN attempted : Cardinality(NotificationsOf(attempted[k].id)) = 1

\* C5: a notify_user that raises after a successful submission leaves the
\* candidate recorded as a success only, and the politeness delay still follows.
C5_NotifyFailureIsHarmless ==
    \A n \in DOMAIN notified :
        ~notified[n][3] =>
            /\ RowsWith(notified[n][1], "failed") = {}
            /\ LoopOver => notified[n][1] \in slept

\* C6: when apply_for_jobs has returned or raised, a driver that initialize()
\* created has been quit and self.driver is None.
C6_DriverReleased ==
    (pc \in {"returned", "raised"} /\ created) => driver = "none"

\* call c has invoked the source adapters
Invoked(c) == cpc[c] # "idle" /\ ~chit[c]

\* C7: of two calls for the same user, the second started after the first
\* had scraped and returned and less than cache_expiry after the first
\* started, the second is a cache hit and invokes no adapter.
C7_SecondCallWithinTTLHits ==
    \A c, d \in Calls :
        (/\ c # d
         /\ cpc[d] # "idle"
         /\ cseen[d][c] = "done"
         /\ Invoked(c)
         /\ cuser[c] = cuser[d]
         /\ cstart[d] - cstart[c] < cache_expiry)
            => ~Invoked(d)

\* C8: a list served from job_cache comes from an entry younger than
\* cache_expiry.
C8_NeverServedPastTTL ==
    \A c \in Calls : chit[c] => cage[c] < cache_expiry

\* a call was served an entry one tick short of the TTL
C8_Witness ==
    \E c \in Calls : chit[c] /\ cage[c] = cache_expiry - 1

\* C9: of two calls for the same cache key, one started while the other was
\* waiting for its adapters, at most one invokes the adapters.
C9_SingleFlight ==
    \A c, d \in Calls :
        (/\ c # d
         /\ cpc[d] # "idle"
         /\ cseen[d][c] = "awaiting"
         /\ ckey[c] = ckey[d])
            => ~(Invoked(c) /\ Invoked(d))

\* what adapter i contributes when those that raise are left out
Contribution(i) == IF feeds[i].raises THEN <<>> ELSE feeds[i].jobs

\* C10: with an adapter that raises on every call, a call that scraped has
\* completed and its all_jobs is the lists of the other adapters, whole and in
\* registration order.
C10_FaultIsolation ==
    \A c \in Calls :
        (/\ \E i \in DOMAIN feeds : feeds[i].raises
         /\ cpc[c] = "done"
         /\ ~chit[c])
            => all_jobs[c] = Contribution(1) \o Contribution(2) \o Contribution(3)
                                \o Contribution(4) \o Contribution(5)

\* pnet alone raises and the call merged the postings of the four others
C10_Witness ==
    \E c \in Calls :
        /\ cpc[c] = "done" /\ ~chit[c]
        /\ {i \in DOMAIN feeds : feeds[i].raises} = {2}
        /\ Len(feeds[1].jobs) = 1
        /\ Len(all_jobs[c]) = 4

\* positions of raw_jobs that hold the first posting of their identifier
FirstOfId ==
    {i \in DOMAIN raw_jobs :
        \A j \in 1..(i - 1) : JobId(raw_jobs[j]) # JobId(raw_jobs[i])}
\* s is the postings of t at the positions P, in the order of t
IsSelection(s, t, P) ==
    \E f \in [DOMAIN s -> DOMAIN t] :
        /\ {f[k] : k \in DOMAIN s} = P
        /\ \A k, l \in DOMAIN s : k < l => f[k] < f[l]
        /\ \A k \in DOMAIN s : s[k] = t[f[k]]
Deduped == fpc \in {"unique", "unique_again"}

\* C11: remove_duplicates applied to its own result returns that result, the
\* same postings in the same order.
C11_DedupIdempotent ==
    fpc = "unique_again" => unique_again = unique_jobs

\* a list of three that lost a duplicate in the first pass went through the
\* second pass
C11_Witness ==
    /\ fpc = "unique_again"
    /\ Len(raw_jobs) = 3
    /\ Len(unique_jobs) = 2

\* C12: the result of remove_duplicates is the first posting of every
\* identifier of the input, one per identifier, in the order of the input.
C12_FirstPerFingerprint ==
    Deduped =>
        /\ IsSelection(unique_jobs, raw_jobs, FirstOfId)
        /\ Len(unique_jobs) =
              Cardinality({JobId(raw_jobs[i]) : i \in DOMAIN raw_jobs})

\* identifiers A, A, B, the two A postings differing in location: the first A
\* and B are left
C12_Witness ==
    /\ Deduped
    /\ Len(raw_jobs) = 3
    /\ JobId(raw_jobs[1]) = JobId(raw_jobs[2])
    /\ raw_jobs[1] # raw_jobs[2]
    /\ JobId(raw_jobs[3]) # JobId(raw_jobs[1])
    /\ unique_jobs = <<raw_jobs[1], raw_jobs[3]>>

\* C13: two postings of one source that both lack a job_id and have the same
\* title and company but differ in content are both in the result.
C13_MissingIdFallsBack ==
    Deduped =>
        \A i, j \in DOMAIN raw_jobs :
            (/\ i < j
             /\ raw_jobs[i].source = raw_jobs[j].source
             /\ raw_jobs[i].job_id = None /\ raw_jobs[j].job_id = None
             /\ raw_jobs[i].title = raw_jobs[j].title
             /\ raw_jobs[i].company = raw_jobs[j].company
             /\ raw_jobs[i] # raw_jobs[j])
                => {raw_jobs[i], raw_jobs[j]} \subseteq Elems(unique_jobs)

\* C14: match_jobs_to_user returns the postings scoring at least
\* preferences['min_match_score'] (70 without the key) and no other, each with
\* its score, by descending score and, among equal scores, in input order.
C14_MatchFilterAndOrder ==
    fpc = "matched" =>
        LET minimum == IF fprefs.min_match_score = NoMin THEN 70
                       ELSE fprefs.min_match_score
            score(i) == CalculateMatchScore(raw_jobs[i], fprefs)
        IN \E f \in [DOMAIN fmatched -> DOMAIN raw_jobs] :
              /\ {f[k] : k \in DOMAIN fmatched}
                    = {i \in DOMAIN raw_jobs : score(i) >= minimum}
              /\ \A k \in DOMAIN fmatched :
                    /\ fmatched[k].match_score = score(f[k])
                    /\ JobId(fmatched[k]) = JobId(raw_jobs[f[k]])
                    /\ fmatched[k].location = raw_jobs[f[k]].location
              /\ \A k, l \in DOMAIN fmatched :
                    k < l => \/ score(f[k]) > score(f[l])
                             \/ score(f[k]) = score(f[l]) /\ f[k] < f[l]

\* postings scored [72, 65, 88] matched with the default minimum gave [88, 72]
C14_Witness ==
    /\ fpc = "matched"
    /\ fprefs.min_match_score = NoMin
    /\ Len(raw_jobs) = 3
    /\ raw_jobs[1].fit = 72 /\ raw_jobs[2].fit = 65 /\ raw_jobs[3].fit = 88
    /\ Len(fmatched) = 2
    /\ fmatched[1].match_score = 88 /\ fmatched[2].match_score = 72

\* a posting scoring exactly the minimum was kept, and two of equal score
C14_WitnessAtMinimum ==
    /\ fpc = "matched"
    /\ \E k \in DOMAIN fmatched : fmatched[k].match_score = MinMatchScore(fprefs)
    /\ \E k, l \in DOMAIN fmatched :
          k < l /\ fmatched[k].match_score = fmatched[l].match_score
                /\ fmatched[k] # fmatched[l]

\* a number held in hundredths is an integer in [0, 100]
IsScore(h) == h % 100 = 0 /\ 0 <= h /\ h <= 100 * 100

Finished(k) == k < Len(attempted) \/ pc \in {"check", "close", "returned"}
Succeeded(job) == job \in Elems(successful_applications)

C18_OnlyInitAborts ==
    /\ init_error =>
          /\ pc = "raised"
          /\ attempted = <<>>
          /\ RunRows = <<>>
          /\ successful_applications = <<>>
    /\ pc = "raised" => init_error

\* initialize() raised on a call that had jobs and quota
C18_Witness ==
    /\ pc = "raised"
    /\ init_error
    /\ Len(jobs) = 2
    /\ max_daily = 2
    /\ JobApplication # <<>>

\* a call met a failed user-data load, a failed candidate, a notification
\* error and a failed log write, and returned
C18_WitnessOtherFailures ==
    /\ pc = "returned"
    /\ ~init_error
    /\ user_data = "empty"
    /\ db_errors > 0
    /\ \E k \in DOMAIN attempted : ~Succeeded(attempted[k])
    /\ \E n \in DOMAIN notified : ~notified[n][3]

\* C20: every candidate that was followed by another attempt in the same call
\* was followed by the politeness delay first.
C20_DelayBetweenAttempts ==
    \A k \in DOMAIN attempted : k < Len(attempted) => attempted[k].id \in slept

\* C21: the result of a call that returned carries the numbers of candidates
\* that succeeded, failed and were skipped for quota, and the three add up to
\* the number of jobs the call was given.
C21_BatchReportsAllCounts ==
    pc = "returned" =>
        /\ {"succeeded", "failed", "skipped"} \subseteq DOMAIN BatchResult
        /\ BatchResult.succeeded + BatchResult.failed + BatchResult.skipped
              = Len(jobs)

\* rows of status 'applied' the user had for today when the call started
AppliedBefore ==
    Cardinality({i \in 1..db_mark : /\ JobApplication[i].user_id = user_id
                                    /\ JobApplication[i].day = "today"
                                    /\ JobApplication[i].status = "applied"})

\* C23: the quota a call computes is max_daily less the successful
\* submissions recorded for the user today, so that a row of status 'failed'
\* takes nothing from it (a count lookup that failed reads as no row at all).
C23_OnlySuccessesConsumeQuota ==
    pc \notin {"idle", "raised"} =>
        \/ remaining_applications = Max(0, max_daily - AppliedBefore)
        \/ applications_today = 0 /\ remaining_applications = max_daily

\* C24: a call that finds applications_today >= max_daily returns at once,
\* with an empty list, no candidate attempted, no row written and no
\* notification sent, and it does not raise.
C24_QuotaExhaustedReturnsEmpty ==
    (pc \notin {"idle", "raised"} /\ applications_today >= max_daily) =>
        /\ pc = "returned"
        /\ successful_applications = <<>>
        /\ attempted = <<>>
        /\ RunRows = <<>>
        /\ notified = <<>>

\* a call with two jobs and max_daily 1 found one row of today and returned
C24_Witness ==
    /\ pc = "returned"
    /\ max_daily = 1 /\ applications_today = 1
    /\ Len(jobs) = 2
    /\ attempted = <<>>

\* C28: the candidates a call attempts are the first ones of the sorted list,
\* never more of them than the quota left when it started, and a job beyond
\* that prefix is not attempted whatever became of the ones before it.
C28_AttemptsWithinPrefix ==
    pc \notin {"idle", "raised"} =>
        /\ Len(attempted) <= QuotaAtStart
        /\ \A k \in DOMAIN attempted : attempted[k] = jobs[k]
        /\ \A i \in DOMAIN jobs : i > QuotaAtStart => jobs[i] \notin Elems(attempted)

\* of three jobs with a quota of two the first two were attempted, the first
\* of them failed, and the third was left alone
C28_Witness ==
    /\ pc = "returned"
    /\ Len(jobs) = 3 /\ QuotaAtStart = 2
    /\ Len(attempted) = 2
    /\ ~Succeeded(attempted[1])
    /\ Len(successful_applications) = 1
    /\ jobs[3] \notin Elems(attempted)

\* the four fields the identifier of a posting is built from
IdFields(job) == <<job.source, job.job_id, job.title, job.company>>

\* C29: two postings of the input that differ in source, job_id, title or
\* company have different identifiers, and a posting that differs in one of
\* these from every posting before it is in the result of remove_duplicates.
C29_FingerprintInjective ==
    Deduped =>
        /\ \A i, j \in DOMAIN raw_jobs :
              IdFields(raw_jobs[i]) # IdFields(raw_jobs[j])
                  => JobId(raw_jobs[i]) # JobId(raw_jobs[j])
        /\ \A i \in DOMAIN raw_jobs :
              (\A j \in 1..(i - 1) : IdFields(raw_jobs[j]) # IdFields(raw_jobs[i]))
                  => raw_jobs[i] \in Elems(unique_jobs)

\* C27: however the calls made for the user on one day interleave, the rows
\* of status 'applied' written for the user that day never number more than
\* max_daily.
C27_DailyLimitAcrossRuns ==
    rows_applied <= daily_limit

\* C30: with no log_application call under way, the user's total_applications
\* has grown by the number of attempt rows created and successful_applications
\* by the number of them with status 'applied'; successful_applications never
\* exceeds total_applications.
C30_CountersMatchRows ==
    /\ user_successful[RunUser] <= total_applications[RunUser]
    /\ (\A w \in Workers : lpc[w] = "idle") =>
          /\ total_applications[RunUser] = Len(JobApplication)
          /\ user_successful[RunUser] =
                Cardinality({i \in DOMAIN JobApplication :
                                JobApplication[i].status = "applied"})

\* the same for the runs in which the database accepted every statement
C30_NoLostIncrement ==
    db_errors = 0 => C30_CountersMatchRows

\* the values that tell the user's race, gender or disability status
DemographicValues(user) ==
    {"Yes", "No"} \cup ({Get(user, "race", ""), Get(user, "gender", "")} \ {""})
NoConsent == ~Truthy(Get(user_fields, "share_demographics", FALSE))

C22_WitnessConsent ==
    /\ jpc = "returned"
    /\ filler = "fill_generic_application_form"
    /\ ~NoConsent
    /\ page.fields = <<Field("disability", "select", FALSE),
                       Field("first_name", "text", FALSE)>>
    /\ Len(typed) = 2
    /\ typed[1].value = "No"

\* C25: apply_for_job runs the filler of the tag detect_form_type returned:
\* the tag's own filler for linkedin_easy_apply, indeed_apply, careers24_apply
\* and pnet_apply, the generic filler for 'generic'.
C25_DispatchRunsTheFiller ==
    (jpc = "returned" /\ detected \in FormTypes) => filler = FillerOf(detected)

\* positions of clicks that are clicks on a submit control
SubmitClicks ==
    {k \in DOMAIN clicks : clicks[k] \in {"Submit", "button[1]", "input[1]"}}

\* C26: a filler that ran returned True exactly when it clicked a submit
\* control, and it clicked at most one. fill_linkedin_easy_apply returns True
\* when the 'Submit' button is there and the click goes through, with or
\* without the confirmation text, and False without the button.
\* fill_generic_application_form clicks the first native submit button, else
\* the first submit input, and returns False when the page has neither.
C26_SuccessIffSubmitted ==
    (jpc = "returned" /\ filler # "none") =>
        /\ applied <=> SubmitClicks # {}
        /\ Cardinality(SubmitClicks) <= 1
        /\ filler = "fill_linkedin_easy_apply" =>
              /\ (page.submit /\ fault = "none") => applied
              /\ ~page.submit => ~applied
        /\ filler = "fill_generic_application_form" =>
              /\ (fault = "none" /\ page.buttons > 0) => clicks = <<"button[1]">>
              /\ (fault = "none" /\ page.buttons = 0 /\ page.inputs > 0)
                    => clicks = <<"input[1]">>
              /\ (page.buttons = 0 /\ page.inputs = 0) => ~applied

\* the LinkedIn filler clicked 'Submit', found no confirmation text and
\* returned True
C26_Witness ==
    /\ jpc = "returned"
    /\ filler = "fill_linkedin_easy_apply"
    /\ page.submit /\ ~page.confirmation
    /\ clicks = <<"Easy Apply", "Submit">>
    /\ applied

\* the generic filler found two submit buttons and a submit input and clicked
\* the first button; on another page it found the input only
C26_WitnessGeneric ==
    /\ jpc = "returned"
    /\ filler = "fill_generic_application_form"
    /\ applied
    /\ \/ page.buttons = 2 /\ page.inputs = 1 /\ clicks = <<"button[1]">>
       \/ page.buttons = 0 /\ page.inputs = 1 /\ clicks = <<"input[1]">>

\* calls in progress, and the sessions they work on
InProgress == {c \in Runs : rpc[c] \in {"page_load", "delay"}}
InUse == {inst_driver[rinst[c]] : c \in InProgress}

\* C16: of the apply_for_jobs calls in progress for the user, on one instance
\* or several, at most one has a candidate under way and together they work on
\* at most one open session; none is left with a driver that another call has
\* closed.
C16_SerializedPerUser ==
    /\ Cardinality({c \in Runs : rpc[c] = "page_load"}) <= 1
    /\ Cardinality(InUse) <= 1
    /\ NoDriver \notin InUse

\* the URL matches one of the four patterns of line 164-171
UrlMatches ==
    \/ In("linkedin.com", current_url) /\ In("easyApply", current_url)
    \/ In("indeed.com", current_url) /\ In("apply", current_url)
    \/ In("careers24.com", current_url)
    \/ In("pnet.co.za", current_url)
Probes == {i \in DOMAIN driver_calls : driver_calls[i] = "find_element"}

\* C19: on a live page detect_form_type returns one of the five tags. A tag
\* of a URL pattern that matches wins whatever buttons the page has, and then
\* no element is looked up; without a URL match the tag follows the buttons,
\* 'generic' meaning neither URL nor button matched. The driver is only read.
C19_DetectFormTypePriority ==
    /\ (dpc # "page" /\ session_alive) => dpc = "returned"
    /\ dpc = "returned" =>
          /\ form_type \in FormTypes
          /\ UrlMatches =>
                /\ Probes = {}
                /\ form_type = "linkedin_easy_apply" =>
                      In("linkedin.com", current_url) /\ In("easyApply", current_url)
                /\ form_type = "indeed_apply" =>
                      In("indeed.com", current_url) /\ In("apply", current_url)
                /\ form_type = "careers24_apply" => In("careers24.com", current_url)
                /\ form_type = "pnet_apply" => In("pnet.co.za", current_url)
                /\ form_type # "generic"
          /\ ~UrlMatches =>
                /\ form_type = "linkedin_easy_apply" => easy_apply_button
                /\ form_type = "indeed_apply" => indeed_apply_button
                /\ form_type \in {"linkedin_easy_apply", "indeed_apply", "generic"}
                /\ form_type = "generic" =>
                      ~easy_apply_button /\ ~indeed_apply_button
          /\ \A i \in DOMAIN driver_calls :
                driver_calls[i] \in {"current_url", "find_element"}

\* a careers24.com page with an 'Easy Apply' button was classified
\* careers24_apply
C19_Witness ==
    /\ dpc = "returned"
    /\ current_url = <<"careers24.com", "/jobs/">>
    /\ easy_apply_button
    /\ form_type = "careers24_apply"

\* a page of no known URL with the Indeed button only, and one with nothing
C19_WitnessStructure ==
    /\ dpc = "returned"
    /\ ~UrlMatches
    /\ \/ form_type = "indeed_apply" /\ Cardinality(Probes) = 2
       \/ form_type = "generic"

\* no list function has been called
FQuiet ==
    /\ raw_jobs = <<>>
    /\ FInit

\* the scraper at rest, for the runs of the applier
SQuiet ==
    /\ feeds = [i \in DOMAIN ScraperNames |-> [raises |-> TRUE, jobs |-> <<>>]]
    /\ SInit

\* the applier at rest, for the runs of the scraper
AQuiet ==
    /\ JobApplication = <<>>
    /\ AInit

\* no call runs side by side with another
CQuiet ==
    /\ daily_limit = 0
    /\ CInit

\* no worker is logging
LQuiet == LInit

\* no job page is being applied on
PQuiet ==
    /\ has_apply_url = FALSE
    /\ fault = "none"
    /\ page = BlankPage
    /\ user_fields = EmptyUserData
    /\ PStart

\* no page is being classified
DQuiet ==
    /\ current_url = <<>>
    /\ easy_apply_button = FALSE
    /\ indeed_apply_button = FALSE
    /\ session_alive = TRUE
    /\ DInit

Init == SQuiet /\ FQuiet /\ CQuiet /\ DQuiet /\ LQuiet /\ PQuiet /\ AInit

\* apply_for_jobs is called: its arguments, and what initialize, the user
\* lookup and the count query meet
CallApplyForJobs ==
    /\ pc = "idle"
    /\ \E u \in {RunUser}, f \in JobLists, m \in 0..MaxDaily,
          init \in {"ok", "chrome_fails", "cdp_fails"}, dataok \in BOOLEAN,
          dbok \in BOOLEAN : ApplyForJobs(u, f, m, init, dataok, dbok)

Next ==
    \/ CallApplyForJobs
    \/ \E success \in BOOLEAN : ApplyForJob(success)
    \/ \E db \in DbOutcomes : LogSuccess(db)
    \/ \E sent \in BOOLEAN : NotifyUser(sent)
    \/ \E d \in DelayValues : Sleep(d)
    \/ \E db \in DbOutcomes : LogFailed(db)
    \/ \E db \in DbOutcomes : LogError(db)
    \/ CheckLimit
    \/ Close

Spec == Init /\ [][Next]_vars

InitScrape == AQuiet /\ FQuiet /\ CQuiet /\ DQuiet /\ LQuiet /\ PQuiet /\ SInit

NextScrape ==
    \/ \E c \in Calls, u \in Users : ScrapeStart(c, u, PrefsOf(u))
    \/ \E c \in Calls : ScrapeFinish(c)
    \/ Tick

SpecScrape == InitScrape /\ [][NextScrape]_vars

InitFunctions == AQuiet /\ SQuiet /\ CQuiet /\ DQuiet /\ LQuiet /\ PQuiet /\ FInit

NextFunctions ==
    \/ RemoveDuplicatesCall
    \/ RemoveDuplicatesAgain
    \/ \E prefs \in PrefsValues : MatchJobsToUserCall(prefs)
    \/ \E cosine \in {"unbound", "bound"} : AiMatchJobsCall(cosine)

SpecFunctions == InitFunctions /\ [][NextFunctions]_vars

InitSessions == AQuiet /\ SQuiet /\ FQuiet /\ DQuiet /\ LQuiet /\ PQuiet /\ CInit

NextSessions ==
    \/ \E c \in Runs, i \in Instances, n \in 0..MaxBatch : RunStart(c, i, n)
    \/ \E c \in Runs, success \in BOOLEAN : RunCandidate(c, success)
    \/ \E c \in Runs : RunAfterDelay(c)

SpecSessions == InitSessions /\ [][NextSessions]_vars

InitDetect == AQuiet /\ SQuiet /\ FQuiet /\ CQuiet /\ LQuiet /\ PQuiet /\ DInit

NextDetect ==
    \/ DetectFormTypeCall
    \/ \E url \in Urls, easy \in BOOLEAN, indeed \in BOOLEAN :
          Navigate(url, easy, indeed)

SpecDetect == InitDetect /\ [][NextDetect]_vars

InitLog == AQuiet /\ SQuiet /\ FQuiet /\ CQuiet /\ DQuiet /\ PQuiet /\ LInit

NextLog ==
    \/ \E w \in Workers, success \in BOOLEAN, ok \in BOOLEAN :
          LogCreate(w, success, ok)
    \/ \E w \in Workers, ok \in BOOLEAN : LogGetUser(w, ok)
    \/ \E w \in Workers, ok \in BOOLEAN : LogSaveUser(w, ok)

SpecLog == InitLog /\ [][NextLog]_vars

InitFill == AQuiet /\ SQuiet /\ FQuiet /\ CQuiet /\ DQuiet /\ LQuiet /\ PInit

NextFill == ApplyForJobOnPage

SpecFill == InitFill /\ [][NextFill]_vars

====
